---- MODULE Spec2Model ----
(***************************************************************************)
(* Model of the TechnoBackend Flask service (src/app.py): the three POST   *)
(* endpoints /api/contact, /api/apply and /api/downloads/request, the      *)
(* process-wide dedup map recent_submissions and the helpers               *)
(* create_submission_key, is_duplicate_submission and is_valid_email.      *)
(*                                                                         *)
(* Python strings are sequences of one-character strings, so that lower(), *)
(* strip(), split('@') and the f-string that builds the submission key are *)
(* computed, not assumed.  JSON values are records [t, v, n]: t is the     *)
(* JSON/Python type, v the characters of a string or the items of a list,  *)
(* n the value of a number or the number of entries of an object.          *)
(***************************************************************************)
EXTENDS Integers, Sequences, FiniteSets, TLC

VARIABLES
    now,                \* time.time(), in whole seconds
    recent_submissions, \* app.py:42, the dedup map: key string -> timestamp
    lastAccept,         \* history: identity triple -> when is_duplicate_submission last returned False for it
    lastAcceptKey,      \* history: key string -> when it was last accepted, and the status that request got
    prior,              \* history: what lastAccept and lastAcceptKey held for req before it was served
    dedup,              \* history: what is_duplicate_submission did for req
    nreq,               \* number of requests served so far
    req,                \* the request being answered
    resp,               \* the response to req
    sent,               \* what the mail collaborator returned for req
    emailIn,            \* argument of the last is_valid_email call
    emailOut,           \* its result: "none" before the call, then "True" or "False"
    pc,                 \* per thread: position inside is_duplicate_submission
    tkey,               \* per thread: local `key`
    tident,             \* per thread: identity triple of its payload
    ttime,              \* per thread: local `current_time`
    tremove,            \* per thread: local `keys_to_remove`
    tscan,              \* per thread: keys the comprehension of line 61 has visited
    tsize,              \* per thread: size of the map when the comprehension started
    tlast,              \* per thread: local `last_submission`
    tret,               \* per thread: "none", the value returned or the exception raised
    tsolo,              \* history, per thread: no other call has been in flight since this one started
    raced,              \* history: keys on which two calls have interfered (see Record and Delete)
    ncalls              \* number of is_duplicate_submission calls started so far

vars == <<now, recent_submissions, lastAccept, lastAcceptKey, prior, dedup, nreq, req, resp, sent,
          emailIn, emailOut, pc, tkey, tident, ttime, tremove, tscan, tsize, tlast, tret,
          tsolo, raced, ncalls>>

seqVars == <<lastAccept, lastAcceptKey, prior, dedup, nreq, req, resp, sent>>
emailVars == <<emailIn, emailOut>>
threadVars == <<pc, tkey, tident, ttime, tremove, tscan, tsize, tlast, tret, tsolo, raced,
                ncalls>>

-----------------------------------------------------------------------------
(* Bounds *)

MaxTime == 62       \* the clock stops advancing past this
MaxReqs == 2        \* requests served in one behaviour of Spec
MaxEmailLen == 5    \* length of the strings handed to is_valid_email in SpecEmail
MaxCalls == 3       \* is_duplicate_submission calls started in one behaviour of SpecRace

(* Program constant *)

SUBMISSION_COOLDOWN == 30

-----------------------------------------------------------------------------
(* Python str operations *)

\* c in s
Contains(s, c) == \E i \in DOMAIN s : s[i] = c

\* one character of str.lower()
LowerChar(c) ==
    CASE c = "A" -> "a"
      [] c = "B" -> "b"
      [] c = "P" -> "p"
      [] c = "D" -> "d"
      [] c = "F" -> "f"
      [] OTHER -> c

\* s.lower()
Lower(s) == [i \in DOMAIN s |-> LowerChar(s[i])]

\* s.strip(): s without its leading and trailing blanks
Strip(s) ==
    LET inked == {i \in DOMAIN s : s[i] # " "}
    IN  IF inked = {} THEN <<>>
        ELSE SubSeq(s, CHOOSE i \in inked : \A j \in inked : i <= j,
                       CHOOSE i \in inked : \A j \in inked : i >= j)

\* s.split(c)[-1]: what follows the last c, the whole of s when c is not in it
SplitLast(s, c) ==
    LET at == {i \in DOMAIN s : s[i] = c}
    IN  IF at = {} THEN s
        ELSE SubSeq(s, (CHOOSE i \in at : \A j \in at : i >= j) + 1, Len(s))

\* s.split(c)[1]: what lies between the first c and the next
SplitSecond(s, c) ==
    LET at == {i \in DOMAIN s : s[i] = c}
        first == CHOOSE i \in at : \A j \in at : i <= j
        later == {i \in at : i > first}
    IN  IF at = {} THEN <<>>
        ELSE IF later = {} THEN SubSeq(s, first + 1, Len(s))
        ELSE SubSeq(s, first + 1, (CHOOSE i \in later : \A j \in later : i <= j) - 1)

\* str(n), for the one-digit counts of the model
Digits(n) == <<(<<"0", "1", "2", "3", "4", "5", "6", "7", "8", "9">>)[n + 1]>>

-----------------------------------------------------------------------------
(* JSON values *)

Absent == [t |-> "absent", v |-> <<>>, n |-> 0]   \* the field is not in the payload
Null == [t |-> "null", v |-> <<>>, n |-> 0]       \* JSON null, Python None
Str(s) == [t |-> "str", v |-> s, n |-> 0]
List(items) == [t |-> "list", v |-> items, n |-> 0]
Num(k) == [t |-> "int", v |-> <<>>, n |-> k]
Obj(k) == [t |-> "dict", v |-> <<>>, n |-> k]     \* an object with k entries

\* Python truthiness of a value that is in the payload
Truthy(x) ==
    CASE x.t = "str" -> x.v # <<>>
      [] x.t = "list" -> x.v # <<>>
      [] x.t = "int" -> x.n # 0
      [] x.t = "dict" -> x.n # 0
      [] OTHER -> FALSE

\* format of a value inside an f-string
Format(x) ==
    CASE x.t = "str" -> x.v
      [] x.t = "null" -> <<"N", "o", "n", "e">>
      [] x.t = "int" -> Digits(x.n)
      [] OTHER -> <<"?">>

-----------------------------------------------------------------------------
(* is_valid_email, app.py:457-461 *)

\* a variant that looks for the '.' in email.split('@')[1]
is_valid_email_second_part(email) ==
    ~(email = <<>> \/ ~Contains(email, "@") \/ ~Contains(SplitSecond(email, "@"), "."))

is_valid_email(email) ==
    ~(email = <<>> \/ ~Contains(email, "@") \/ ~Contains(SplitLast(email, "@"), "."))

-----------------------------------------------------------------------------
(* create_submission_key, app.py:46-48 *)

\* data.get('email', '').lower(): the default only replaces a missing field
KeyEmail(data) ==
    CASE data["email"].t = "absent" -> [exc |-> "none", s |-> <<>>]
      [] data["email"].t = "str" -> [exc |-> "none", s |-> Lower(data["email"].v)]
      [] OTHER -> [exc |-> "AttributeError", s |-> <<>>]

\* data.get('category', ''), formatted by the f-string
KeyCategory(data) ==
    IF data["category"].t = "absent" THEN <<>> ELSE Format(data["category"])

\* len(data.get('selectedPdfs', []))
KeyCount(data) ==
    CASE data["selectedPdfs"].t = "absent" -> [exc |-> "none", n |-> 0]
      [] data["selectedPdfs"].t \in {"str", "list"} ->
            [exc |-> "none", n |-> Len(data["selectedPdfs"].v)]
      [] data["selectedPdfs"].t = "dict" -> [exc |-> "none", n |-> data["selectedPdfs"].n]
      [] OTHER -> [exc |-> "TypeError", n |-> 0]

\* a variant that leaves out .lower()
create_submission_key_case_sensitive(data) ==
    LET e == KeyEmail(data)
        c == KeyCount(data)
    IN  IF e.exc # "none" THEN [exc |-> e.exc, key |-> <<>>]
        ELSE IF c.exc # "none" THEN [exc |-> c.exc, key |-> <<>>]
        ELSE [exc |-> "none",
              key |-> data["email"].v \o <<"_">> \o KeyCategory(data) \o <<"_">> \o Digits(c.n)]

create_submission_key(data) ==
    LET e == KeyEmail(data)
        c == KeyCount(data)
    IN  IF e.exc # "none" THEN [exc |-> e.exc, key |-> <<>>]
        ELSE IF c.exc # "none" THEN [exc |-> c.exc, key |-> <<>>]
        ELSE [exc |-> "none",
              key |-> e.s \o <<"_">> \o KeyCategory(data) \o <<"_">> \o Digits(c.n)]

\* The identity the key stands for: (lower-cased email, category, number of
\* selectedPdfs).  Defined exactly when create_submission_key returns.
Identity(data) ==
    [email |-> KeyEmail(data).s,
     category |-> IF data["category"].t = "absent" THEN Str(<<>>) ELSE data["category"],
     count |-> KeyCount(data).n]

-----------------------------------------------------------------------------
(* is_duplicate_submission, app.py:50-67 *)

\* a variant that reads the cooldown in minutes
WithinCooldownMinutes(current_time, last_submission) ==
    current_time - last_submission < SUBMISSION_COOLDOWN * 60

\* a variant whose window is one second short
WithinCooldownOffByOne(current_time, last_submission) ==
    current_time - last_submission < SUBMISSION_COOLDOWN - 1

\* line 57
WithinCooldown(current_time, last_submission) ==
    current_time - last_submission < SUBMISSION_COOLDOWN

\* a variant that keeps an entry for two cooldowns
StaleAfterTwoCooldowns(current_time, v) ==
    current_time - v > 2 * SUBMISSION_COOLDOWN

\* line 61, the condition of the comprehension
Stale(current_time, v) ==
    current_time - v > SUBMISSION_COOLDOWN

\* lines 61-66: drop the stale entries, then record key at current_time
Recorded(map, key, current_time) ==
    LET kept == {k \in DOMAIN map : ~Stale(current_time, map[k])}
    IN  [k \in kept \cup {key} |-> IF k = key THEN current_time ELSE map[k]]

\* a variant that restarts the cooldown of a key whenever it rejects it
is_duplicate_submission_refreshing(data, map, current_time) ==
    LET k == create_submission_key(data)
    IN  IF k.exc # "none"
        THEN [exc |-> k.exc, dup |-> FALSE, map |-> map]
        ELSE IF k.key \in DOMAIN map /\ WithinCooldown(current_time, map[k.key])
        THEN [exc |-> "none", dup |-> TRUE,
              map |-> [z \in DOMAIN map |-> IF z = k.key THEN current_time ELSE map[z]]]
        ELSE [exc |-> "none", dup |-> FALSE, map |-> Recorded(map, k.key, current_time)]

\* The whole call, run without interruption: what it raises, what it returns
\* and the map it leaves.
is_duplicate_submission(data, map, current_time) ==
    LET k == create_submission_key(data)
    IN  IF k.exc # "none"
        THEN [exc |-> k.exc, dup |-> FALSE, map |-> map]
        ELSE IF k.key \in DOMAIN map /\ WithinCooldown(current_time, map[k.key])
        THEN [exc |-> "none", dup |-> TRUE, map |-> map]
        ELSE [exc |-> "none", dup |-> FALSE, map |-> Recorded(map, k.key, current_time)]

-----------------------------------------------------------------------------
(* Requests and responses *)

AllFields == {"name", "email", "message", "firstName", "lastName", "phone",
              "jobTitle", "selectedPdfs", "category"}

NoData ==
    [name |-> Absent, email |-> Absent, message |-> Absent, firstName |-> Absent,
     lastName |-> Absent, phone |-> Absent, jobTitle |-> Absent,
     selectedPdfs |-> Absent, category |-> Absent]

ContactRequired == <<"name", "email", "message">>                            \* line 168
ApplyRequired == <<"firstName", "lastName", "email", "phone", "jobTitle">>   \* line 217
DownloadsRequired ==
    <<"firstName", "lastName", "email", "phone", "selectedPdfs", "category">> \* line 484

\* field.capitalize(): first character upper-cased, the rest lower-cased
Capitalize(field) ==
    CASE field = "name" -> "Name"
      [] field = "email" -> "Email"
      [] field = "message" -> "Message"
      [] field = "firstName" -> "Firstname"
      [] field = "lastName" -> "Lastname"
      [] field = "phone" -> "Phone"
      [] field = "jobTitle" -> "Jobtitle"
      [] field = "selectedPdfs" -> "Selectedpdfs"
      [] OTHER -> "Category"

\* jsonify({'success': ..., 'message': f'{text}{args}'}), status: text is the
\* literal part of the message and args the interpolated values, in order.
Response(status, success, text, args) ==
    [status |-> status, success |-> success, text |-> text, args |-> args]

NoResponse == Response(0, FALSE, "", <<>>)

\* What the mail collaborator (send_*_email) returned: (success, message)
NotSent == [called |-> FALSE, ok |-> FALSE, err |-> ""]
Sent(m) == [called |-> TRUE, ok |-> m.ok, err |-> m.err]

\* Outcomes of the SMTP hand-off: success, or the text of the exception raised
MailOutcomes == {[ok |-> TRUE, err |-> ""],
                 [ok |-> FALSE, err |-> "Connection refused"],
                 [ok |-> FALSE, err |-> "Authentication failed"]}

\* the fields of required that are missing from data or falsy, by position
MissingAt(data, required) == {i \in DOMAIN required : ~Truthy(data[required[i]])}

\* the loop without its early return: the last missing field is reported
LastMissing(data, required) ==
    LET at == MissingAt(data, required)
    IN  IF at = {} THEN "" ELSE required[CHOOSE i \in at : \A j \in at : i >= j]

\* the `for field in required_fields: if not data.get(field)` loops of contact
\* and apply_job: the first field that is missing or falsy, "" when none is
FirstMissing(data, required) ==
    LET at == MissingAt(data, required)
    IN  IF at = {} THEN "" ELSE required[CHOOSE i \in at : \A j \in at : i <= j]

\* lines 485-489: every field that is not in data or falsy, in order
MissingFields(data, required) ==
    SelectSeq(required, LAMBDA field : ~Truthy(data[field]))

-----------------------------------------------------------------------------
(* contact, app.py:162-194 *)

contact(data, mail) ==
    LET field == FirstMissing(data, ContactRequired)
    IN  IF field # ""
        THEN [resp |-> Response(400, FALSE, " is required.", <<Capitalize(field)>>),
              sent |-> NotSent]
        ELSE IF mail.ok
        THEN [resp |-> Response(200, TRUE,
                  "Thank you for your message! We will get back to you soon.", <<>>),
              sent |-> Sent(mail)]
        ELSE [resp |-> Response(500, FALSE, "Failed to send message: ", <<mail.err>>),
              sent |-> Sent(mail)]

-----------------------------------------------------------------------------
(* apply_job, app.py:196-256 *)

\* The resume part of the multipart body: none at all, a plain form field
\* named resume, or an uploaded file with its filename
NoResume == [kind |-> "none", filename |-> <<>>]
FormResume == [kind |-> "form", filename |-> <<>>]
FileResume(filename) == [kind |-> "file", filename |-> filename]

AllowedExtensions == {<<"p", "d", "f">>, <<"d", "o", "c">>, <<"d", "o", "c", "x">>}  \* line 230

\* lines 229-232: a file was uploaded and its type is not allowed
BadFileType(resume) ==
    /\ resume.kind = "file"
    /\ resume.filename # <<>>
    /\ \/ ~Contains(resume.filename, ".")
       \/ Lower(SplitLast(resume.filename, ".")) \notin AllowedExtensions

\* line 200: 'resume' not in request.files and 'resume' not in request.form
ResumePartMissing(resume) == resume.kind = "none"

apply_job(data, resume, mail) ==
    LET field == FirstMissing(data, ApplyRequired)
    IN  IF ResumePartMissing(resume)
        THEN [resp |-> Response(400, FALSE, "No resume file provided", <<>>),
              sent |-> NotSent]
        ELSE IF field # ""
        THEN [resp |-> Response(400, FALSE, " is required.", <<Capitalize(field)>>),
              sent |-> NotSent]
        ELSE IF BadFileType(resume)
        THEN [resp |-> Response(400, FALSE,
                  "Invalid file type. Allowed types: PDF, DOC, DOCX", <<>>),
              sent |-> NotSent]
        ELSE IF mail.ok
        THEN [resp |-> Response(200, TRUE,
                  "Thank you for your application! We will review your details and get back to you soon.",
                  <<>>),
              sent |-> Sent(mail)]
        ELSE [resp |-> Response(500, FALSE, "Failed to submit application: ", <<mail.err>>),
              sent |-> Sent(mail)]

-----------------------------------------------------------------------------
(* request_downloads, app.py:463-524 *)

\* line 476: data.get('email', '').strip(), reached only with a str or no email
UserEmail(data) ==
    IF data["email"].t = "str" THEN Strip(data["email"].v) ELSE <<>>

\* line 498
PdfsNotAList(data) ==
    data["selectedPdfs"].t # "list" \/ Len(data["selectedPdfs"].v) = 0

\* a variant that answers 200 whatever the checks and the mail hand-off say
ValidateAndSendIgnoringMail(data, mail) ==
    [resp |-> Response(200, TRUE,
        "Thank you! Your request has been received and will be processed shortly.", <<>>),
     sent |-> Sent(mail)]

\* lines 475-517, what follows the duplicate check
ValidateAndSend(data, mail) ==
    LET user_email == UserEmail(data)
        missing_fields == MissingFields(data, DownloadsRequired)
    IN  IF user_email = <<>> \/ ~is_valid_email(user_email)
        THEN [resp |-> Response(400, FALSE, "Please enter a valid email address.", <<>>),
              sent |-> NotSent]
        ELSE IF missing_fields # <<>>
        THEN [resp |-> Response(400, FALSE, "Missing required fields: ", missing_fields),
              sent |-> NotSent]
        ELSE IF PdfsNotAList(data)
        THEN [resp |-> Response(400, FALSE, "Please select at least one PDF document.", <<>>),
              sent |-> NotSent]
        ELSE IF ~mail.ok
        THEN [resp |-> Response(500, FALSE, "Failed to process your request: ", <<mail.err>>),
              sent |-> Sent(mail)]
        ELSE [resp |-> Response(200, TRUE,
                  "Thank you! Your request has been received and will be processed shortly.",
                  <<>>),
              sent |-> Sent(mail)]

\* The whole handler: the response, the mail result, the map it leaves and
\* what the duplicate check did
request_downloads(data, map, current_time, mail) ==
    LET d == is_duplicate_submission(data, map, current_time)
        rest == ValidateAndSend(data, mail)
    IN  IF d.exc # "none"
        THEN [resp |-> Response(500, FALSE, "An unexpected error occurred: ", <<d.exc>>),
              sent |-> NotSent, map |-> d.map, dedup |-> "raised"]
        ELSE IF d.dup
        THEN [resp |-> Response(429, FALSE,
                  "Request already submitted recently. Please wait before submitting again.",
                  <<>>),
              sent |-> NotSent, map |-> d.map, dedup |-> "duplicate"]
        ELSE [resp |-> rest.resp, sent |-> rest.sent, map |-> d.map, dedup |-> "accepted"]

-----------------------------------------------------------------------------
(* The requests the model sends *)

Delays == {0, SUBMISSION_COOLDOWN - 1, SUBMISSION_COOLDOWN, SUBMISSION_COOLDOWN + 1}

With(data, field, value) == [data EXCEPT ![field] = value]

GoodEmail == <<"a", "@", "b", ".", "c">>
UpperEmail == <<"A", "@", "b", ".", "c">>

ContactBase ==
    [NoData EXCEPT !["name"] = Str(<<"A">>), !["email"] = Str(GoodEmail),
                   !["message"] = Str(<<"h", "i">>)]

ContactPayloads ==
    {ContactBase,
     With(ContactBase, "email", Str(<<"a", "b">>)),
     With(ContactBase, "name", Absent),
     With(ContactBase, "name", Null),
     With(ContactBase, "name", Str(<<>>)),
     With(ContactBase, "email", Absent),
     With(ContactBase, "email", Null),
     With(ContactBase, "email", Str(<<>>)),
     With(ContactBase, "message", Absent),
     With(ContactBase, "message", Null),
     With(ContactBase, "message", Str(<<>>)),
     With(With(ContactBase, "name", Str(<<>>)), "message", Absent),
     With(With(ContactBase, "email", Null), "message", Str(<<>>))}

ApplyBase ==
    [NoData EXCEPT !["firstName"] = Str(<<"A">>), !["lastName"] = Str(<<"B">>),
                   !["email"] = Str(GoodEmail), !["phone"] = Str(<<"1">>),
                   !["jobTitle"] = Str(<<"d", "e", "v">>)]

PdfResume == FileResume(<<"c", ".", "p", "d", "f">>)

LastAndPhoneMissing == With(With(ApplyBase, "lastName", Absent), "phone", Str(<<>>))

\* multipart fields are strings: a field is there, empty or not, or it is not
ApplyRequests ==
    {[data |-> ApplyBase, resume |-> NoResume],
     [data |-> ApplyBase, resume |-> FormResume],
     [data |-> ApplyBase, resume |-> FileResume(<<>>)],
     [data |-> ApplyBase, resume |-> PdfResume],
     [data |-> ApplyBase, resume |-> FileResume(<<"c", ".", "P", "D", "F">>)],
     [data |-> ApplyBase, resume |-> FileResume(<<"c", ".", "e", "x", "e">>)],
     [data |-> ApplyBase, resume |-> FileResume(<<"c">>)],
     [data |-> With(ApplyBase, "firstName", Absent), resume |-> PdfResume],
     [data |-> With(ApplyBase, "firstName", Str(<<>>)), resume |-> PdfResume],
     [data |-> With(ApplyBase, "lastName", Absent), resume |-> PdfResume],
     [data |-> With(ApplyBase, "lastName", Str(<<>>)), resume |-> PdfResume],
     [data |-> With(ApplyBase, "email", Absent), resume |-> PdfResume],
     [data |-> With(ApplyBase, "email", Str(<<>>)), resume |-> PdfResume],
     [data |-> With(ApplyBase, "phone", Absent), resume |-> PdfResume],
     [data |-> With(ApplyBase, "phone", Str(<<>>)), resume |-> PdfResume],
     [data |-> With(ApplyBase, "jobTitle", Absent), resume |-> PdfResume],
     [data |-> With(ApplyBase, "jobTitle", Str(<<>>)), resume |-> PdfResume],
     [data |-> With(ApplyBase, "jobTitle", Absent), resume |-> FileResume(<<"c">>)],
     [data |-> LastAndPhoneMissing, resume |-> NoResume],
     [data |-> LastAndPhoneMissing, resume |-> FormResume],
     [data |-> LastAndPhoneMissing, resume |-> PdfResume]}

DownloadsBase ==
    [NoData EXCEPT !["firstName"] = Str(<<"A">>), !["lastName"] = Str(<<"B">>),
                   !["email"] = Str(GoodEmail), !["phone"] = Str(<<"1">>),
                   !["selectedPdfs"] = List(<<"kiosk1">>),
                   !["category"] = Str(<<"x">>)]

\* two valid payloads with an underscore on either side of the key's separator
UnderscoreInCategory == With(DownloadsBase, "category", Str(<<"x", "_", "y">>))
UnderscoreInEmail ==
    With(With(DownloadsBase, "email", Str(<<"a", "@", "b", ".", "c", "_", "x">>)),
         "category", Str(<<"y">>))

DownloadsPayloads ==
    {DownloadsBase,
     With(DownloadsBase, "firstName", Absent),
     With(DownloadsBase, "firstName", Null),
     With(DownloadsBase, "firstName", Str(<<>>)),
     With(DownloadsBase, "lastName", Absent),
     With(DownloadsBase, "lastName", Null),
     With(DownloadsBase, "phone", Str(<<>>)),
     With(DownloadsBase, "email", Absent),
     With(DownloadsBase, "email", Null),
     With(DownloadsBase, "email", Str(<<>>)),
     With(DownloadsBase, "email", Str(<<" ">>)),
     With(DownloadsBase, "email", Str(UpperEmail)),
     With(DownloadsBase, "email", Str(<<"a", "b">>)),
     With(DownloadsBase, "email", Str(<<"a", "@", "b">>)),
     With(DownloadsBase, "category", Absent),
     With(DownloadsBase, "category", Null),
     With(DownloadsBase, "category", Str(<<>>)),
     With(DownloadsBase, "category", Str(<<"y">>)),
     With(DownloadsBase, "selectedPdfs", Absent),
     With(DownloadsBase, "selectedPdfs", Null),
     With(DownloadsBase, "selectedPdfs", Str(<<>>)),
     With(DownloadsBase, "selectedPdfs", Str(<<"s">>)),
     With(DownloadsBase, "selectedPdfs", List(<<>>)),
     With(DownloadsBase, "selectedPdfs", List(<<"video-conf1">>)),
     With(DownloadsBase, "selectedPdfs", List(<<"kiosk1", "video-conf1">>)),
     With(DownloadsBase, "selectedPdfs", Num(5)),
     With(DownloadsBase, "selectedPdfs", Obj(0)),
     With(DownloadsBase, "selectedPdfs", Obj(1)),
     With(With(DownloadsBase, "firstName", Absent), "lastName", Str(<<>>)),
     With(With(DownloadsBase, "firstName", Str(<<>>)), "email", Str(<<"a", "b">>)),
     With(With(DownloadsBase, "phone", Null), "selectedPdfs", List(<<>>)),
     With(With(DownloadsBase, "email", Str(UpperEmail)), "selectedPdfs",
          List(<<"video-conf1">>)),
     UnderscoreInCategory,
     UnderscoreInEmail}

-----------------------------------------------------------------------------
(* The service, one request at a time *)

NoRequest == [ep |-> "none", data |-> NoData, resume |-> NoResume]
NoPrior == [identAt |-> -1, keyAt |-> -1, keyStatus |-> 0]
NoThreads == [t \in {} |-> 0]

Init ==
    /\ now = 0
    /\ recent_submissions = <<>>
    /\ lastAccept = <<>>
    /\ lastAcceptKey = <<>>
    /\ prior = NoPrior
    /\ dedup = "none"
    /\ nreq = 0
    /\ req = NoRequest
    /\ resp = NoResponse
    /\ sent = NotSent
    /\ emailIn = <<>>
    /\ emailOut = "none"
    /\ pc = NoThreads /\ tkey = NoThreads /\ tident = NoThreads /\ ttime = NoThreads
    /\ tremove = NoThreads /\ tscan = NoThreads /\ tsize = NoThreads
    /\ tlast = NoThreads /\ tret = NoThreads /\ tsolo = NoThreads /\ raced = {}
    /\ ncalls = 0

OkMail == [ok |-> TRUE, err |-> ""]

\* The mail outcomes to try for a request: all of them when the handler gets
\* as far as the mail collaborator, one when it never calls it
MailChoices(called) == IF called THEN MailOutcomes ELSE {OkMail}

\* A request arrives delay seconds after the previous one was answered; the
\* service answers one request at a time
Arrives(delay) ==
    /\ req = NoRequest
    /\ nreq < MaxReqs
    /\ now + delay <= MaxTime
    /\ now' = now + delay
    /\ nreq' = nreq + 1

\* POST /api/contact; the handler reads no clock, so the model lets none pass
Contact ==
    /\ Arrives(0)
    /\ \E data \in ContactPayloads :
       \E mail \in MailChoices(contact(data, OkMail).sent.called) :
       \E r \in {contact(data, mail)} :
            /\ req' = [ep |-> "contact", data |-> data, resume |-> NoResume]
            /\ resp' = r.resp
            /\ sent' = r.sent
            /\ prior' = NoPrior
            /\ dedup' = "none"
            /\ UNCHANGED <<recent_submissions, lastAccept, lastAcceptKey, emailVars, threadVars>>

\* POST /api/apply
Apply ==
    /\ Arrives(0)
    /\ \E a \in ApplyRequests :
       \E mail \in MailChoices(apply_job(a.data, a.resume, OkMail).sent.called) :
       \E r \in {apply_job(a.data, a.resume, mail)} :
            /\ req' = [ep |-> "apply", data |-> a.data, resume |-> a.resume]
            /\ resp' = r.resp
            /\ sent' = r.sent
            /\ prior' = NoPrior
            /\ dedup' = "none"
            /\ UNCHANGED <<recent_submissions, lastAccept, lastAcceptKey, emailVars, threadVars>>

\* What lastAccept and lastAcceptKey hold for a payload before it is served
PriorOf(data) ==
    LET k == create_submission_key(data)
        id == Identity(data)
    IN  IF k.exc # "none" THEN NoPrior
        ELSE [identAt |-> IF id \in DOMAIN lastAccept THEN lastAccept[id] ELSE -1,
              keyAt |-> IF k.key \in DOMAIN lastAcceptKey
                        THEN lastAcceptKey[k.key].at ELSE -1,
              keyStatus |-> IF k.key \in DOMAIN lastAcceptKey
                            THEN lastAcceptKey[k.key].status ELSE 0]

\* f with x mapped to y
Put(f, x, y) == [z \in DOMAIN f \cup {x} |-> IF z = x THEN y ELSE f[z]]

\* POST /api/downloads/request
Downloads ==
    \E delay \in Delays :
      /\ Arrives(delay)
      /\ \E data \in DownloadsPayloads :
         \E mail \in MailChoices(
              request_downloads(data, recent_submissions, now + delay, OkMail).sent.called) :
         \E r \in {request_downloads(data, recent_submissions, now + delay, mail)} :
            /\ req' = [ep |-> "downloads", data |-> data, resume |-> NoResume]
            /\ resp' = r.resp
            /\ sent' = r.sent
            /\ recent_submissions' = r.map
            /\ dedup' = r.dedup
            /\ prior' = PriorOf(data)
            /\ lastAccept' = IF r.dedup = "accepted"
                             THEN Put(lastAccept, Identity(data), now + delay)
                             ELSE lastAccept
            /\ lastAcceptKey' = IF r.dedup = "accepted"
                                THEN Put(lastAcceptKey, create_submission_key(data).key,
                                         [at |-> now + delay, status |-> r.resp.status])
                                ELSE lastAcceptKey
            /\ UNCHANGED <<emailVars, threadVars>>

\* The response is returned and the request context is torn down
Finish ==
    /\ req # NoRequest
    /\ req' = NoRequest
    /\ resp' = NoResponse
    /\ sent' = NotSent
    /\ prior' = NoPrior
    /\ dedup' = "none"
    /\ UNCHANGED <<now, nreq, recent_submissions, lastAccept, lastAcceptKey,
                   emailVars, threadVars>>

Next == Contact \/ Apply \/ Downloads \/ Finish

Spec == Init /\ [][Next]_vars

-----------------------------------------------------------------------------
(* is_valid_email on its own *)

EmailChars == {"a", "b", "c", "@", "."}

EmailStrings == UNION {[1..n -> EmailChars] : n \in 0..MaxEmailLen}

\* one call of is_valid_email
CheckEmail ==
    /\ emailOut = "none"
    /\ \E email \in EmailStrings :
        /\ emailIn' = email
        /\ emailOut' = IF is_valid_email(email) THEN "True" ELSE "False"
        /\ UNCHANGED <<now, recent_submissions, seqVars, threadVars>>

NextEmail == CheckEmail

SpecEmail == Init /\ [][NextEmail]_vars

-----------------------------------------------------------------------------
(* is_duplicate_submission on its own, one call after another *)

DedupPayloads ==
    {DownloadsBase,
     With(DownloadsBase, "email", Str(UpperEmail)),
     With(DownloadsBase, "category", Str(<<"y">>)),
     With(DownloadsBase, "email", Null)}

\* one call of is_duplicate_submission(data), delay seconds after the previous
\* one returned
DedupCall ==
    \E delay \in Delays :
      /\ ncalls < MaxCalls
      /\ now + delay <= MaxTime
      /\ \E data \in DedupPayloads :
         \E d \in {is_duplicate_submission(data, recent_submissions, now + delay)} :
            /\ now' = now + delay
            /\ ncalls' = ncalls + 1
            /\ recent_submissions' = d.map
            /\ dedup' = IF d.exc # "none" THEN "raised"
                        ELSE IF d.dup THEN "duplicate" ELSE "accepted"
            /\ prior' = PriorOf(data)
            /\ lastAccept' = IF d.exc = "none" /\ ~d.dup
                             THEN Put(lastAccept, Identity(data), now + delay)
                             ELSE lastAccept
            /\ lastAcceptKey' = IF d.exc = "none" /\ ~d.dup
                                THEN Put(lastAcceptKey, create_submission_key(data).key,
                                         [at |-> now + delay, status |-> 0])
                                ELSE lastAcceptKey
            /\ UNCHANGED <<nreq, req, resp, sent, emailVars, pc, tkey, tident, ttime, tremove,
                           tscan, tsize, tlast, tret, tsolo, raced>>

NextDedup == DedupCall

SpecDedup == Init /\ [][NextDedup]_vars

-----------------------------------------------------------------------------
(* is_duplicate_submission called from request handlers running on separate  *)
(* threads: one step per statement, the interpreter switching threads between *)
(* any two of them.  The comprehension of line 61 is one step per entry       *)
(* visited; the dict iterator raises RuntimeError when the size of the map    *)
(* differs from the size it started with.  The model visits the entries in    *)
(* any order.                                                                 *)

Threads == {"t1", "t2"}

RaceDelays == {SUBMISSION_COOLDOWN - 1, SUBMISSION_COOLDOWN + 1}

RacePayloads ==
    {DownloadsBase,
     With(DownloadsBase, "email", Str(UpperEmail)),
     With(DownloadsBase, "category", Str(<<"y">>))}

NoIdentity == [email |-> <<>>, category |-> Absent, count |-> 0]

InitRace ==
    /\ now = 0
    /\ recent_submissions = <<>>
    /\ lastAccept = <<>>
    /\ lastAcceptKey = <<>>
    /\ prior = NoPrior
    /\ dedup = "none"
    /\ nreq = 0
    /\ req = NoRequest
    /\ resp = NoResponse
    /\ sent = NotSent
    /\ emailIn = <<>>
    /\ emailOut = "none"
    /\ pc = [t \in Threads |-> "idle"]
    /\ tkey = [t \in Threads |-> <<>>]
    /\ tident = [t \in Threads |-> NoIdentity]
    /\ ttime = [t \in Threads |-> 0]
    /\ tremove = [t \in Threads |-> <<>>]
    /\ tscan = [t \in Threads |-> {}]
    /\ tsize = [t \in Threads |-> 0]
    /\ tlast = [t \in Threads |-> 0]
    /\ tret = [t \in Threads |-> "none"]
    /\ tsolo = [t \in Threads |-> TRUE]
    /\ raced = {}
    /\ ncalls = 0

\* the statements after its check, where a call no longer looks at its key
PastCheck == {"L57", "L61", "L61scan", "L62", "L66"}

Raise(t, exception) ==
    /\ pc' = [pc EXCEPT ![t] = "done"]
    /\ tret' = [tret EXCEPT ![t] = exception]

\* inside is_duplicate_submission: called and not yet returned or raised
InFlight(t) == pc[t] \notin {"idle", "done"}

\* lines 52-53: key = create_submission_key(data); current_time = time.time().
\* History: the call is on its own when no other is in flight, and the calls
\* in flight are on their own no longer.
Call(t) ==
    /\ pc[t] = "idle"
    /\ ncalls < MaxCalls
    /\ ncalls' = ncalls + 1
    /\ \E data \in RacePayloads :
        /\ tkey' = [tkey EXCEPT ![t] = create_submission_key(data).key]
        /\ tident' = [tident EXCEPT ![t] = Identity(data)]
    /\ ttime' = [ttime EXCEPT ![t] = now]
    /\ pc' = [pc EXCEPT ![t] = "L55"]
    /\ tsolo' = [u \in Threads |-> IF u = t THEN \A w \in Threads \ {t} : ~InFlight(w)
                                   ELSE tsolo[u] /\ ~InFlight(u)]
    /\ UNCHANGED <<now, recent_submissions, seqVars, emailVars, tremove, tscan, tsize,
                   tlast, tret, raced>>

\* line 55: if key in recent_submissions
CheckIn(t) ==
    /\ pc[t] = "L55"
    /\ pc' = [pc EXCEPT ![t] = IF tkey[t] \in DOMAIN recent_submissions THEN "L56" ELSE "L61"]
    /\ UNCHANGED <<now, recent_submissions, seqVars, emailVars, tsolo, tkey, tident, ttime, tremove,
                   tscan, tsize, tlast, tret, raced, ncalls>>

\* line 56: last_submission = recent_submissions[key]
ReadLast(t) ==
    /\ pc[t] = "L56"
    /\ tkey[t] \in DOMAIN recent_submissions
    /\ tlast' = [tlast EXCEPT ![t] = recent_submissions[tkey[t]]]
    /\ pc' = [pc EXCEPT ![t] = "L57"]
    /\ UNCHANGED <<now, recent_submissions, seqVars, emailVars, tsolo, tkey, tident, ttime, tremove,
                   tscan, tsize, tret, raced, ncalls>>

\* line 56 when another call has deleted the key since line 55: KeyError
ReadLastKeyError(t) ==
    /\ pc[t] = "L56"
    /\ tkey[t] \notin DOMAIN recent_submissions
    /\ Raise(t, "KeyError")
    /\ UNCHANGED <<now, recent_submissions, seqVars, emailVars, tsolo, tkey, tident, ttime, tremove,
                   tscan, tsize, tlast, raced, ncalls>>

\* lines 57-58: if current_time - last_submission < SUBMISSION_COOLDOWN: return True
Compare(t) ==
    /\ pc[t] = "L57"
    /\ IF WithinCooldown(ttime[t], tlast[t])
       THEN pc' = [pc EXCEPT ![t] = "done"] /\ tret' = [tret EXCEPT ![t] = "True"]
       ELSE pc' = [pc EXCEPT ![t] = "L61"] /\ tret' = tret
    /\ UNCHANGED <<now, recent_submissions, seqVars, emailVars, tsolo, tkey, tident, ttime, tremove,
                   tscan, tsize, tlast, raced, ncalls>>

\* line 61: the comprehension takes an iterator on recent_submissions.items()
ScanStart(t) ==
    /\ pc[t] = "L61"
    /\ tsize' = [tsize EXCEPT ![t] = Cardinality(DOMAIN recent_submissions)]
    /\ tscan' = [tscan EXCEPT ![t] = {}]
    /\ tremove' = [tremove EXCEPT ![t] = <<>>]
    /\ pc' = [pc EXCEPT ![t] = "L61scan"]
    /\ UNCHANGED <<now, recent_submissions, seqVars, emailVars, tsolo, tkey, tident, ttime,
                   tlast, tret, raced, ncalls>>

\* line 61: the iterator yields one more entry, kept when it is stale
ScanStep(t) ==
    /\ pc[t] = "L61scan"
    /\ Cardinality(DOMAIN recent_submissions) = tsize[t]
    /\ \E k \in DOMAIN recent_submissions \ tscan[t] :
        /\ tscan' = [tscan EXCEPT ![t] = @ \cup {k}]
        /\ tremove' = [tremove EXCEPT ![t] =
                          IF Stale(ttime[t], recent_submissions[k]) THEN Append(@, k) ELSE @]
    /\ UNCHANGED <<now, recent_submissions, seqVars, emailVars, tsolo, pc, tkey, tident, ttime,
                   tsize, tlast, tret, raced, ncalls>>

\* line 61: the iterator is exhausted
ScanEnd(t) ==
    /\ pc[t] = "L61scan"
    /\ Cardinality(DOMAIN recent_submissions) = tsize[t]
    /\ DOMAIN recent_submissions \ tscan[t] = {}
    /\ pc' = [pc EXCEPT ![t] = "L62"]
    /\ UNCHANGED <<now, recent_submissions, seqVars, emailVars, tsolo, tkey, tident, ttime, tremove,
                   tscan, tsize, tlast, tret, raced, ncalls>>

\* line 61 when another call has resized the map: RuntimeError, dictionary
\* changed size during iteration
ScanRuntimeError(t) ==
    /\ pc[t] = "L61scan"
    /\ Cardinality(DOMAIN recent_submissions) # tsize[t]
    /\ Raise(t, "RuntimeError")
    /\ UNCHANGED <<now, recent_submissions, seqVars, emailVars, tsolo, tkey, tident, ttime, tremove,
                   tscan, tsize, tlast, raced, ncalls>>

\* lines 62-63: del recent_submissions[k] for the next k of keys_to_remove.
\* History: the entry deleted may have been rewritten since line 61 found it
\* stale; the key then joins raced.
Delete(t) ==
    /\ pc[t] = "L62"
    /\ tremove[t] # <<>>
    /\ Head(tremove[t]) \in DOMAIN recent_submissions
    /\ recent_submissions' = [k \in DOMAIN recent_submissions \ {Head(tremove[t])} |->
                                 recent_submissions[k]]
    /\ tremove' = [tremove EXCEPT ![t] = Tail(@)]
    /\ raced' = IF Stale(ttime[t], recent_submissions[Head(tremove[t])])
                THEN raced ELSE raced \cup {Head(tremove[t])}
    /\ UNCHANGED <<now, seqVars, emailVars, tsolo, pc, tkey, tident, ttime, tscan, tsize, tlast,
                   tret, ncalls>>

\* line 63 when another call has already deleted k: KeyError
DeleteKeyError(t) ==
    /\ pc[t] = "L62"
    /\ tremove[t] # <<>>
    /\ Head(tremove[t]) \notin DOMAIN recent_submissions
    /\ Raise(t, "KeyError")
    /\ UNCHANGED <<now, recent_submissions, seqVars, emailVars, tsolo, tkey, tident, ttime, tremove,
                   tscan, tsize, tlast, raced, ncalls>>

\* line 62: the loop is over
DeleteEnd(t) ==
    /\ pc[t] = "L62"
    /\ tremove[t] = <<>>
    /\ pc' = [pc EXCEPT ![t] = "L66"]
    /\ UNCHANGED <<now, recent_submissions, seqVars, emailVars, tsolo, tkey, tident, ttime, tremove,
                   tscan, tsize, tlast, tret, raced, ncalls>>

\* lines 66-67: recent_submissions[key] = current_time; return False.
\* History: when another call for the same key is between its check and its
\* record, the key joins raced.
Record(t) ==
    /\ pc[t] = "L66"
    /\ recent_submissions' = Put(recent_submissions, tkey[t], ttime[t])
    /\ pc' = [pc EXCEPT ![t] = "done"]
    /\ tret' = [tret EXCEPT ![t] = "False"]
    /\ raced' = IF \E u \in Threads : u # t /\ pc[u] \in PastCheck /\ tkey[u] = tkey[t]
                THEN raced \cup {tkey[t]} ELSE raced
    /\ UNCHANGED <<now, seqVars, emailVars, tsolo, tkey, tident, ttime, tremove, tscan, tsize,
                   tlast, ncalls>>

\* the handler goes on with the value returned, or with the exception, and the
\* thread is free for another request
Return(t) ==
    /\ pc[t] = "done"
    /\ pc' = [pc EXCEPT ![t] = "idle"]
    /\ tkey' = [tkey EXCEPT ![t] = <<>>]
    /\ tident' = [tident EXCEPT ![t] = NoIdentity]
    /\ ttime' = [ttime EXCEPT ![t] = 0]
    /\ tremove' = [tremove EXCEPT ![t] = <<>>]
    /\ tscan' = [tscan EXCEPT ![t] = {}]
    /\ tsize' = [tsize EXCEPT ![t] = 0]
    /\ tlast' = [tlast EXCEPT ![t] = 0]
    /\ tret' = [tret EXCEPT ![t] = "none"]
    /\ tsolo' = [tsolo EXCEPT ![t] = TRUE]
    /\ UNCHANGED <<now, recent_submissions, seqVars, emailVars, raced, ncalls>>

\* time passes
Tick ==
    \E delay \in RaceDelays :
        /\ now + delay <= MaxTime
        /\ now' = now + delay
        /\ UNCHANGED <<recent_submissions, seqVars, emailVars, threadVars>>

NextRace ==
    \/ Tick
    \/ \E t \in Threads :
        \/ Call(t) \/ CheckIn(t) \/ ReadLast(t) \/ ReadLastKeyError(t) \/ Compare(t)
        \/ ScanStart(t) \/ ScanStep(t) \/ ScanEnd(t) \/ ScanRuntimeError(t)
        \/ Delete(t) \/ DeleteKeyError(t) \/ DeleteEnd(t) \/ Record(t) \/ Return(t)

SpecRace == InitRace /\ [][NextRace]_vars

-----------------------------------------------------------------------------
(* Vocabulary of the claims *)

RequiredOf(ep) ==
    CASE ep = "contact" -> ContactRequired
      [] ep = "apply" -> ApplyRequired
      [] ep = "downloads" -> DownloadsRequired
      [] OTHER -> <<>>

Served == req # NoRequest

\* the positions, in the endpoint's required-field order, of the fields req lacks
Lacking == MissingAt(req.data, RequiredOf(req.ep))

FirstLacking == RequiredOf(req.ep)[CHOOSE i \in Lacking : \A j \in Lacking : i <= j]

Range(seq) == {seq[i] : i \in DOMAIN seq}

\* the message of resp names field: by an interpolated name, or in its literal text
NamesField(field) ==
    \/ field \in Range(resp.args)
    \/ Capitalize(field) \in Range(resp.args)
    \/ field = "email" /\ resp.text = "Please enter a valid email address."

\* a /api/downloads/request payload that passes every validation of the endpoint
ValidDownloads(data) ==
    /\ \A i \in DOMAIN DownloadsRequired : Truthy(data[DownloadsRequired[i]])
    /\ data["email"].t = "str"
    /\ \E i, j \in DOMAIN Strip(data["email"].v) :
          /\ i < j
          /\ Strip(data["email"].v)[i] = "@"
          /\ Strip(data["email"].v)[j] = "."
          /\ \A m \in DOMAIN Strip(data["email"].v) :
                m > i => Strip(data["email"].v)[m] # "@"
    /\ data["selectedPdfs"].t = "list"

-----------------------------------------------------------------------------
(* C1 *)

\* C1: in a sequential run of POST /api/downloads/request calls, a request
\* whose identity (lower-cased email, category, number of selectedPdfs) was
\* accepted by is_duplicate_submission less than SUBMISSION_COOLDOWN seconds
\* earlier is rejected by it and answered 429, whatever the case of the email's
\* letters and whichever PDFs are selected.
C1_DuplicateWithinCooldownIs429 ==
    (req.ep = "downloads" /\ prior.identAt >= 0
        /\ now - prior.identAt < SUBMISSION_COOLDOWN)
    => (dedup = "duplicate" /\ resp.status = 429 /\ ~resp.success)

\* an upper-case spelling of an address accepted 29 seconds earlier, asking for
\* another PDF, is answered 429
C1_Witness ==
    /\ req.ep = "downloads"
    /\ req.data["email"] = Str(UpperEmail)
    /\ req.data["selectedPdfs"] = List(<<"video-conf1">>)
    /\ prior.identAt >= 0
    /\ now - prior.identAt = SUBMISSION_COOLDOWN - 1
    /\ resp.status = 429

-----------------------------------------------------------------------------
(* C2 *)

\* C2: a valid POST /api/downloads/request whose key has no acceptance on
\* record in the last SUBMISSION_COOLDOWN seconds (none at all, or the last one
\* more than 30 seconds ago and no acceptance since) is accepted by the dedup
\* check and gets 200 with success:true when mail transport succeeds; so of two
\* such requests more than 30 seconds apart both do.
C2_AcceptedAgainAfterCooldown ==
    (req.ep = "downloads" /\ ValidDownloads(req.data)
        /\ (prior.keyAt = -1 \/ now - prior.keyAt > SUBMISSION_COOLDOWN))
    => /\ dedup = "accepted"
       /\ sent.called
       /\ sent.ok => (resp.status = 200 /\ resp.success)

\* the second of two requests with one key, 31 seconds after the first, both 200
C2_Witness ==
    /\ req.ep = "downloads"
    /\ ValidDownloads(req.data)
    /\ prior.keyStatus = 200
    /\ now - prior.keyAt > SUBMISSION_COOLDOWN
    /\ resp.status = 200
    /\ resp.success

-----------------------------------------------------------------------------
(* C3 *)

\* C3: on every POST endpoint, a payload in which a required field is missing
\* or empty (JSON null included) is answered 400 with success:false and a
\* message naming such a field, in any state of the dedup map; never 429 or 500.
\* Stated for the requests that reach field validation on /api/apply (those
\* with a resume part; C8 is about the others).
C3_MissingFieldIs400 ==
    (Served /\ Lacking # {} /\ ~(req.ep = "apply" /\ ResumePartMissing(req.resume)))
    => /\ resp.status = 400
       /\ ~resp.success
       /\ \E i \in Lacking : NamesField(RequiredOf(req.ep)[i])

-----------------------------------------------------------------------------
(* C4 *)

\* C4: a POST /api/downloads/request that ends in 400 or 500 leaves
\* recent_submissions as it was.
C4_FailedRequestLeavesMapUnchanged ==
    [][(req'.ep = "downloads" /\ req = NoRequest /\ resp'.status \in {400, 500})
        => recent_submissions' = recent_submissions]_vars

-----------------------------------------------------------------------------
(* C5 *)

\* C5: POST /api/downloads/request answers 400 whenever selectedPdfs is an
\* empty list or is not a list (string, number, object, null, absent), the other
\* fields being valid and the key not within its cooldown.
C5_PdfsNotAListIs400 ==
    (/\ req.ep = "downloads"
     /\ ValidDownloads(With(req.data, "selectedPdfs", List(<<"kiosk1">>)))
     /\ (req.data["selectedPdfs"].t # "list" \/ req.data["selectedPdfs"].v = <<>>)
     /\ dedup # "duplicate")
    => resp.status = 400

-----------------------------------------------------------------------------
(* C6 *)

\* C6: on every POST endpoint the mail collaborator is called only once
\* validation has passed; when it returns failure with error text e the
\* response is 500 with success:false and a message containing e; and a 200
\* success:true response is returned only when it reported success.
C6_MailFailureIs500 ==
    /\ sent.called => (Served /\ Lacking = {})
    /\ (sent.called /\ ~sent.ok)
        => (resp.status = 500 /\ ~resp.success /\ sent.err \in Range(resp.args))
    /\ (resp.status = 200 \/ resp.success)
        => (sent.called /\ sent.ok /\ resp.status = 200 /\ resp.success)

\* a valid download request whose mail hand-off failed
C6_Witness ==
    /\ req.ep = "downloads"
    /\ sent.called
    /\ sent.err = "Authentication failed"
    /\ resp.status = 500
    /\ resp.args = <<"Authentication failed">>

-----------------------------------------------------------------------------
(* C8 *)

\* C8: a POST /api/apply carrying every required field and no resume part at
\* all is not rejected with 400, and gets 200 success:true when mail succeeds.
C8_ResumeIsOptional ==
    (req.ep = "apply" /\ Lacking = {} /\ req.resume = NoResume)
    => /\ resp.status # 400
       /\ resp.status = 200 \/ (sent.called /\ ~sent.ok)

-----------------------------------------------------------------------------
(* C9 *)

\* C9 as claimed, for the requests that reach field validation (an apply
\* request has its resume part): when several required fields are missing or
\* empty, a 400 message names the first missing field of the endpoint's
\* required-field order and nothing else.
C9_FailFastEverywhere ==
    (Served /\ Cardinality(Lacking) >= 2 /\ resp.status = 400
        /\ ~(req.ep = "apply" /\ ResumePartMissing(req.resume)))
    => resp.args \in {<<FirstLacking>>, <<Capitalize(FirstLacking)>>}

\* C9 amended: /api/contact, and /api/apply once its resume-part check has
\* passed, fail fast: with any required field missing the response is 400 and
\* names the first missing field only; a /api/apply request without a resume
\* part is answered 'No resume file provided' whatever fields it lacks.
\* /api/downloads/request does not fail fast: once the duplicate check has
\* accepted the request, the email-format check decides first, and otherwise
\* the 400 message lists every missing field, in required-field order.
C9_FailFastOnFormsOnly ==
    /\ (req.ep = "contact" /\ Lacking # {})
        => (resp.status = 400 /\ resp.text = " is required."
            /\ resp.args = <<Capitalize(FirstLacking)>>)
    /\ (req.ep = "apply" /\ Lacking # {})
        => /\ resp.status = 400
           /\ IF req.resume = NoResume
              THEN resp.text = "No resume file provided" /\ resp.args = <<>>
              ELSE resp.text = " is required."
                   /\ resp.args = <<Capitalize(FirstLacking)>>
    /\ (req.ep = "downloads" /\ Lacking # {} /\ dedup = "accepted")
        => /\ resp.status = 400
           /\ IF req.data["email"].t # "str" \/ ~is_valid_email(Strip(req.data["email"].v))
              THEN resp.text = "Please enter a valid email address." /\ resp.args = <<>>
              ELSE /\ resp.text = "Missing required fields: "
                   /\ Len(resp.args) = Cardinality(Lacking)
                   /\ \A i \in DOMAIN resp.args :
                         /\ \E j \in Lacking : resp.args[i] = DownloadsRequired[j]
                         /\ \A j \in DOMAIN resp.args : i < j =>
                              \E a, b \in Lacking :
                                 /\ a < b
                                 /\ resp.args[i] = DownloadsRequired[a]
                                 /\ resp.args[j] = DownloadsRequired[b]

\* a download request lacking firstName and lastName is told of both
C9_Witness ==
    /\ req.ep = "downloads"
    /\ Cardinality(Lacking) >= 2
    /\ resp.status = 400
    /\ resp.args = <<"firstName", "lastName">>

-----------------------------------------------------------------------------
(* C7 *)

\* position i of emailIn holds an "@" and a later position holds a "."
DotAfter(i) ==
    /\ emailIn[i] = "@"
    /\ \E j \in DOMAIN emailIn : i < j /\ emailIn[j] = "."

\* C7 as claimed: is_valid_email returns True for every string with a "." after
\* an "@", and False for every other string.
C7_DotAfterAnyAtIsValid ==
    emailOut # "none"
    => (emailOut = "True" <=> \E i \in DOMAIN emailIn : DotAfter(i))

\* C7 amended: is_valid_email returns True exactly for the strings with a "."
\* after their last "@"; a string whose only "." after an "@" lies before a
\* later "@" is rejected.  "a@b.c" passes, "abc" and "a@b" fail.
C7_DotAfterLastAtIsValid ==
    emailOut # "none"
    => /\ emailOut = "True" <=>
            \E i \in DOMAIN emailIn :
                DotAfter(i) /\ \A m \in DOMAIN emailIn : m > i => emailIn[m] # "@"
       /\ emailIn = <<"a", "@", "b", ".", "c">> => emailOut = "True"
       /\ emailIn = <<"a", "b", "c">> => emailOut = "False"
       /\ emailIn = <<"a", "@", "b">> => emailOut = "False"

\* "a@b.@": a "." follows the first "@", none follows the last; rejected
C7_Witness ==
    /\ emailIn = <<"a", "@", "b", ".", "@">>
    /\ emailOut = "False"

-----------------------------------------------------------------------------
(* C10 *)

\* both threads have returned False for one key at times less than
\* SUBMISSION_COOLDOWN apart
BothAccepted ==
    /\ \A t \in Threads : pc[t] = "done" /\ tret[t] = "False"
    /\ \A t, u \in Threads :
          tkey[t] = tkey[u] /\ ttime[t] - ttime[u] < SUBMISSION_COOLDOWN

\* C10: two concurrent calls for one key can both return False less than 30
\* seconds apart, and only because nothing synchronises them: when they do,
\* some call recorded that key between the check and the record of another
\* call for it, or deleted an entry of that key rewritten after it was found
\* stale.
C10_DoubleAcceptOnlyByRace ==
    BothAccepted => \A t \in Threads : tkey[t] \in raced

\* the interleaving: both calls at the same second, both find the map empty,
\* both record and return False
C10_Witness ==
    /\ BothAccepted
    /\ \A t \in Threads : ttime[t] = 0 /\ tkey[t] = create_submission_key(DownloadsBase).key
    /\ ncalls = 2
    /\ raced # {}

-----------------------------------------------------------------------------
(* C11 *)

\* the step in which thread t records its key and returns False (lines 66-67)
Accepts(t) == pc[t] = "L66" /\ pc'[t] = "done"

\* right after the step, the map holds the key of t with its current_time
HoldsAccepted(t) ==
    /\ tkey[t] \in DOMAIN recent_submissions'
    /\ recent_submissions'[tkey[t]] = ttime[t]

\* right after the step, no entry of the map is older than the cooldown for t
NoneStaleFor(t) ==
    \A k \in DOMAIN recent_submissions' :
        ~(ttime[t] - recent_submissions'[k] > SUBMISSION_COOLDOWN)

\* C11 as claimed: immediately after any is_duplicate_submission call that
\* accepts at time t, recent_submissions holds the accepted key with timestamp
\* t and no entry whose age t - v exceeds SUBMISSION_COOLDOWN.
C11_PrunedAfterEveryAccept ==
    [][\A t \in Threads : Accepts(t) => (HoldsAccepted(t) /\ NoneStaleFor(t))]_vars

\* C11 amended: immediately after any accepting call the map holds the accepted
\* key with timestamp t; and when no other call was in flight at any time
\* during the call, it holds no entry whose age t - v exceeds
\* SUBMISSION_COOLDOWN.
C11_PrunedAfterSoloAccept ==
    [][\A t \in Threads :
          Accepts(t) => (HoldsAccepted(t) /\ (tsolo[t] => NoneStaleFor(t)))]_vars

\* t2 accepted one key at 0 and has not been overlapped; t1, called 31 seconds
\* later with another key and on its own, has accepted and pruned the key of t2
C11_Witness ==
    /\ pc["t2"] = "done" /\ tret["t2"] = "False" /\ ttime["t2"] = 0 /\ tsolo["t2"]
    /\ tkey["t2"] = create_submission_key(DownloadsBase).key
    /\ pc["t1"] = "done" /\ tret["t1"] = "False" /\ tsolo["t1"]
    /\ ttime["t1"] = SUBMISSION_COOLDOWN + 1
    /\ DOMAIN recent_submissions =
          {create_submission_key(With(DownloadsBase, "category", Str(<<"y">>))).key}

-----------------------------------------------------------------------------
(* C12 *)

\* the key of the last call had been accepted before, its last acceptance
\* being less than SUBMISSION_COOLDOWN seconds old
AcceptedWithinCooldown ==
    prior.keyAt >= 0 /\ now - prior.keyAt < SUBMISSION_COOLDOWN

\* the cooldown runs from the last acceptance of the key: a call is rejected
\* exactly when that acceptance is less than SUBMISSION_COOLDOWN seconds old,
\* whatever was rejected since
MeasuredFromLastAcceptance ==
    /\ dedup = "duplicate" <=> AcceptedWithinCooldown
    /\ (dedup = "accepted" /\ prior.keyAt >= 0) => now - prior.keyAt >= SUBMISSION_COOLDOWN

\* C12: a call of is_duplicate_submission that rejects leaves recent_submissions
\* entirely unchanged; the timestamp of the rejected key is not refreshed, so
\* the cooldown is measured from the last acceptance and a caller retrying
\* continuously is accepted again once 30 seconds have passed since it.
C12_RejectionLeavesMapUnchanged ==
    [][/\ dedup' = "duplicate" => recent_submissions' = recent_submissions
       /\ MeasuredFromLastAcceptance']_vars

\* a key accepted at 0, rejected at 29 and accepted at 58: 29 seconds after the
\* rejection, 58 after the acceptance
C12_Witness ==
    /\ ncalls = 3
    /\ now = 2 * (SUBMISSION_COOLDOWN - 1)
    /\ prior.keyAt = 0
    /\ dedup = "accepted"
    /\ DOMAIN recent_submissions = {create_submission_key(DownloadsBase).key}

-----------------------------------------------------------------------------
(* C13 *)

\* the call of thread t has ended in an exception raised by the cleanup: the
\* RuntimeError of the scan of line 61, or the KeyError of the del of line 63
\* (keys_to_remove still holds the key it failed on)
CleanupFailed(t) ==
    /\ pc[t] = "done"
    /\ \/ tret[t] = "RuntimeError"
       \/ tret[t] = "KeyError" /\ tremove[t] # <<>>

\* C13: under any interleaving of concurrent is_duplicate_submission calls the
\* cleanup of stale entries never fails: the map is not resized while a call
\* scans it, and every key chosen for deletion is still there when it is
\* deleted.
C13_CleanupNeverFails ==
    \A t \in Threads : ~CleanupFailed(t)

-----------------------------------------------------------------------------
(* C14 *)

\* C14: create_submission_key is injective on identities: payloads whose
\* (lower-cased email, category, number of selectedPdfs) differ get different
\* key strings, so the last acceptance of a request's key is the last
\* acceptance of its identity, and a request is answered 429 only when its own
\* identity was accepted less than SUBMISSION_COOLDOWN seconds earlier.
C14_KeyInjectiveOnIdentities ==
    req.ep = "downloads" =>
        /\ prior.keyAt = prior.identAt
        /\ resp.status = 429 =>
              (prior.identAt >= 0 /\ now - prior.identAt < SUBMISSION_COOLDOWN)

====
